---- MODULE Spec2Model ----
(***************************************************************************)
(* note_renumber.py: renumbering of endnote references in spine order.     *)
(*                                                                         *)
(* Strings are sequences of tokens ("note-", "#", decimal digits, file     *)
(* names), so that formatting ("note-{:d}".format), extract_anchor and     *)
(* string comparison are computed rather than assumed.  A document is the  *)
(* sequence of its <a> elements in document order; endnotes.xhtml is the   *)
(* sequence of the <li> items of its <ol>, each with its <a> elements.     *)
(***************************************************************************)
EXTENDS Integers, Sequences, FiniteSets, TLC

\* ------------------------------------------------------------------ bounds
\* total number of noteref links in the project (body files + inside notes)
MaxMarkers == 2
\* number of <li> items in the input endnotes.xhtml
MaxNotes == 2
\* input anchors are note-1 .. note-MaxAnchor
MaxAnchor == 2

\* ----------------------------------------------------------------- strings
Digit == <<"0", "1", "2", "3", "4", "5", "6", "7", "8", "9">>

RECURSIVE str(_)
\* str(n) / "{:d}".format(n): the decimal digits of n >= 0
str(n) ==
    IF n < 10 THEN <<Digit[n + 1]>>
    ELSE str(n \div 10) \o <<Digit[(n % 10) + 1]>>

\* "note-{:d}".format(current_note_number)
note_anchor(n) == <<"note-">> \o str(n)

\* 'noteref-{:d}'.format(current_note_number)
noteref_id(n) == <<"noteref-">> \o str(n)

\* str.find: 0-based index of the first occurrence of token t, -1 if none
find(s, t) ==
    IF \E i \in 1..Len(s) : s[i] = t
    THEN (CHOOSE i \in 1..Len(s) : s[i] = t /\ \A j \in 1..(i - 1) : s[j] # t) - 1
    ELSE -1

\* the part of href after the first hash, "" when there is no hash
extract_anchor(href) ==
    LET hash_position == find(href, "#") + 1
    IN  IF hash_position > 0
        THEN SubSeq(href, hash_position + 1, Len(href))
        ELSE <<>>

\* ------------------------------------------------------------------- files
exclude_list ==
    {"titlepage.xhtml", "colophon.xhtml", "uncopyright.xhtml",
     "imprint.xhtml", "halftitle.xhtml", "endnotes.xhtml"}

BodyFiles == {"chapter-1.xhtml", "chapter-2.xhtml"}

\* the spine of the projects explored: get_content_files returns the idrefs
\* of the manifest's itemrefs in order
Spine ==
    <<"titlepage.xhtml", "chapter-1.xhtml", "chapter-2.xhtml", "endnotes.xhtml">>

VARIABLES
    de_orphan,            \* args.remove_orphans
    file_list,            \* the spine
    disk,                 \* body file name -> its <a> elements, as stored
    notes_disk,           \* endnotes.xhtml as stored: its <li> items
    endnotes_written,     \* how often this run wrote endnotes.xhtml
    pc,                   \* position of main
    endnotes,             \* the list of ListNote
    processed,            \* main: files processed
    current_num,          \* main: next note number
    notes_changed,        \* the global counter
    file_idx,             \* main: index into file_list
    soup,                 \* process_file: the <a> elements of the parsed file
    link_idx,             \* process_file: index of the next noteref
    needs_rewrite,        \* process_file: dirty flag
    current_note_number,  \* parameter of process_file / process_endnotes_file
    cursor,               \* process_endnotes_file: index of the next noteref
    run,                  \* 1 in the first run of the program, 2 in the second
    history               \* the noteref links this run met, in order

vars ==
    <<de_orphan, file_list, disk, notes_disk, endnotes_written, pc, endnotes,
      processed, current_num, notes_changed, file_idx, soup, link_idx,
      needs_rewrite, current_note_number, cursor, run, history>>

\* ------------------------------------------------------------------- links
\* the link after lines 97-99 / 153-155
renumber(link, n) ==
    [link EXCEPT !.href = <<"endnotes.xhtml", "#">> \o note_anchor(n),
                 !.id = noteref_id(n),
                 !.string = str(n)]

\* link.clear(): the element loses its children, and keeps its attributes
clear(link) == [link EXCEPT !.string = <<>>]

\* old_anchor of lines 88-91 / 144-147
old_anchor_of(link) ==
    IF link.href # <<>> THEN extract_anchor(link.href) ELSE <<>>

\* list(filter(lambda x: x.anchor == old_anchor, endnotes)), as indices
matches(old_anchor, notes) ==
    {i \in 1..Len(notes) : notes[i].anchor = old_anchor}

\* ------------------------------------------------------------------- notes
\* line 197: the epub:type of a "return to text" link, as get_notes tests it
is_referrer(epub_type) == epub_type = "se:referrer" \/ epub_type = "backlink"

\* note.back_link: the href of the last referrer link of the item that has one
back_link_of(contents) ==
    LET refs == {j \in 1..Len(contents) :
                    is_referrer(contents[j].epub_type) /\ contents[j].href # <<>>}
    IN  IF refs = {} THEN <<>>
        ELSE contents[CHOOSE j \in refs : \A k \in refs : k <= j].href

\* get_notes: one ListNote per <li>, in document order.  number, source_file
\* and matched keep the class defaults; obj is the identity of the object.
get_notes(items) ==
    [i \in 1..Len(items) |->
        [number |-> 0,
         anchor |-> items[i].id,
         contents |-> items[i].contents,
         back_link |-> back_link_of(items[i].contents),
         source_file |-> <<>>,
         matched |-> FALSE,
         obj |-> i]]

\* lines 113-116: the single match is numbered and takes the file's name
match_in_file(note, n, file_name) ==
    [note EXCEPT !.number = n, !.matched = TRUE, !.source_file = <<file_name>>]

\* lines 169-173: as above, and the note's anchor becomes the new anchor
match_in_endnotes(note, n) ==
    [note EXCEPT !.number = n, !.matched = TRUE,
                 !.source_file = <<"endnotes.xhtml">>,
                 !.anchor = note_anchor(n)]

\* the counter left as it is
file_same_number(n) == n

\* line 117: the counter after a link of a body file
file_next_number(n) == n + 1

\* line 174, which lies inside the block of line 149
endnotes_next_number(n, changed) == IF changed THEN n + 1 ELSE n

RECURSIVE noterefs(_, _)
\* lines 83-87 / 140-143: the indices, in document order and from i on, of
\* the <a> elements whose epub:type is "noteref"
noterefs(links, i) ==
    IF i > Len(links) THEN <<>>
    ELSE IF links[i].epub_type = "noteref" THEN <<i>> \o noterefs(links, i + 1)
    ELSE noterefs(links, i + 1)

RECURSIVE nested_noterefs(_, _)
\* the loops of lines 137-143: <<note, link>> for every noteref inside a note,
\* from note i on
nested_noterefs(notes, i) ==
    IF i > Len(notes) THEN <<>>
    ELSE LET at == noterefs(notes[i].contents, 1)
         IN  [j \in 1..Len(at) |-> <<i, at[j]>>] \o nested_noterefs(notes, i + 1)

RECURSIVE next_file(_, _)
\* lines 278-280: the first index from i on of a file that is not excluded,
\* Len(spine) + 1 when there is none
next_file(spine, i) ==
    IF i > Len(spine) THEN i
    ELSE IF spine[i] \in exclude_list THEN next_file(spine, i + 1)
    ELSE i

\* ----------------------------------------------------------------- rebuild
RECURSIVE insert_by_number(_, _)
\* x placed behind the last element whose number is not greater
insert_by_number(sorted, x) ==
    IF sorted = <<>> THEN <<x>>
    ELSE IF sorted[Len(sorted)].number <= x.number THEN Append(sorted, x)
    ELSE Append(insert_by_number(SubSeq(sorted, 1, Len(sorted) - 1), x),
                sorted[Len(sorted)])

\* the list left in document order
unsorted(notes) == notes

RECURSIVE sort_by_number(_)
\* endnotes.sort(key=lambda enote: enote.number): stable, ascending
sort_by_number(notes) ==
    IF notes = <<>> THEN <<>>
    ELSE insert_by_number(sort_by_number(SubSeq(notes, 1, Len(notes) - 1)),
                          notes[Len(notes)])

\* line 228: "se:referrer" in epub_type or "backlink" in epub_type; the
\* epub:type values of the documents modelled hold one word, for which
\* containment is equality
has_referrer(epub_type) == epub_type \in {"se:referrer", "backlink"}

\* lines 223-232: the note's contents with its referrer links repointed
relink(note) ==
    [j \in 1..Len(note.contents) |->
        LET link == note.contents[j]
        IN  IF has_referrer(link.epub_type) /\ link.href # <<>>
            THEN [link EXCEPT !.href =
                     note.source_file \o <<"#", "noteref-">> \o str(note.number)]
            ELSE link]

\* lines 220-233: the <li> built for a matched note
new_li(note) ==
    [id |-> <<"note-">> \o str(note.number),
     epub_type |-> "endnote",
     contents |-> relink(note),
     src |-> note.obj]

\* line 219: the notes that are emitted
emitted(note) == note.matched

RECURSIVE list_items(_)
\* the loop of lines 218-233 over the sorted list
list_items(notes) ==
    IF notes = <<>> THEN <<>>
    ELSE IF emitted(notes[1]) THEN <<new_li(notes[1])>> \o list_items(Tail(notes))
    ELSE list_items(Tail(notes))

\* the rebuild not made conditional on the change counter
recreate_if_processed(files, changed) == files # 0

\* lines 287-294: whether main rebuilds endnotes.xhtml
must_recreate(files, changed) == files # 0 /\ changed > 0

\* ------------------------------------------------------------------ inputs
\* the hrefs of the noteref links of the input: one without a fragment, and
\* endnotes.xhtml#note-k
RefHrefs ==
    {<<"endnotes.xhtml">>}
    \cup {<<"endnotes.xhtml", "#">> \o note_anchor(k) : k \in 1..MaxAnchor}

\* a noteref link of the input, as its author numbered it
InputRef(href, el) ==
    LET a == extract_anchor(href)
    IN  [epub_type |-> "noteref",
         href |-> href,
         id |-> IF a = <<>> THEN <<>> ELSE <<"noteref-">> \o Tail(a),
         string |-> IF a = <<>> THEN <<"*">> ELSE Tail(a),
         el |-> el]

\* a link that is no note reference
InputLink(el) ==
    [epub_type |-> "", href |-> <<"index.xhtml">>, id |-> <<>>,
     string |-> <<"index">>, el |-> el]

\* the ids of the <li> items of the input: note-k
NoteIds == {note_anchor(k) : k \in 1..MaxAnchor}

\* the "return to text" link that ends an input note
InputBacklink(id, el) ==
    [epub_type |-> "se:referrer",
     href |-> IF id = <<>> THEN <<>>
              ELSE <<"chapter-1.xhtml", "#", "noteref-">> \o Tail(id),
     id |-> <<>>,
     string |-> <<"back">>,
     el |-> el]

RECURSIVE Sum(_, _)
Sum(f, n) == IF n = 0 THEN 0 ELSE f[n] + Sum(f, n - 1)

\* the input endnotes.xhtml: note i has id ids[i] and holds cnt[i] noteref
\* links, taken in order from hrefs, followed by its backlink
InputNotes(ids, cnt, hrefs) ==
    [i \in 1..Len(ids) |->
        [id |-> ids[i],
         epub_type |-> "endnote",
         contents |->
            [j \in 1..cnt[i] |->
                InputRef(hrefs[Sum(cnt, i - 1) + j], <<"endnotes.xhtml", i, j>>)]
            \o <<InputBacklink(ids[i], <<"endnotes.xhtml", i, cnt[i] + 1>>)>>,
         src |-> 0]]

\* an input body file: an ordinary link, then its noteref links
InputFile(name, hrefs) ==
    <<InputLink(<<name, 0, 0>>)>>
    \o [j \in 1..Len(hrefs) |-> InputRef(hrefs[j], <<name, 0, j>>)]

Init ==
    \E d \in BOOLEAN, b1 \in 0..MaxMarkers, n \in 0..MaxNotes :
    \E b2 \in 0..(MaxMarkers - b1) :
    \E cnt \in [1..n -> 0..(MaxMarkers - b1 - b2)] :
        /\ Sum(cnt, n) <= MaxMarkers - b1 - b2
        /\ \E h1 \in [1..b1 -> RefHrefs], h2 \in [1..b2 -> RefHrefs],
              ids \in [1..n -> NoteIds], hn \in [1..Sum(cnt, n) -> RefHrefs] :
            /\ de_orphan = d
            /\ file_list = Spine
            /\ disk = [f \in BodyFiles |->
                         IF f = "chapter-1.xhtml" THEN InputFile(f, h1)
                         ELSE InputFile(f, h2)]
            /\ notes_disk = InputNotes(ids, cnt, hn)
        /\ endnotes_written = 0
        /\ pc = "start"
        /\ endnotes = <<>>
        /\ processed = 0
        /\ current_num = 0
        /\ notes_changed = 0
        /\ file_idx = 0
        /\ soup = <<>>
        /\ link_idx = 0
        /\ needs_rewrite = FALSE
        /\ current_note_number = 0
        /\ cursor = 0
        /\ run = 1
        /\ history = <<>>

\* ------------------------------------------------------------- observation
\* history records, for every noteref link a run meets, in the order met: the
\* element, the file it is in, its anchor before the run, whether an item of
\* endnotes.xhtml as stored has that anchor as its id, and the notes (their
\* obj) line 102 / 158 selected for it; the run does not read it.
defined(anchor, items) == \E i \in 1..Len(items) : items[i].id = anchor

\* ----------------------------------------------------------------- actions
\* main's loop, lines 278-286, arrives at index j of the spine with counter
\* num: the file there is read and parsed (lines 80-84), or, behind the last
\* file, process_endnotes_file is called
enter(j, num) ==
    /\ file_idx' = j
    /\ current_num' = num
    /\ current_note_number' = num
    /\ needs_rewrite' = FALSE
    /\ IF j <= Len(file_list)
       THEN /\ pc' = "file"
            /\ processed' = processed + 1
            /\ soup' = disk'[file_list[j]]
            /\ link_idx' = 1
            /\ cursor' = cursor
       ELSE /\ pc' = "endnotes"
            /\ processed' = processed
            /\ soup' = <<>>
            /\ link_idx' = 0
            /\ cursor' = 1

\* main, lines 268-283: the notes are loaded, the counters set and the loop
\* over the spine entered
main_start ==
    /\ pc = "start"
    /\ endnotes' = get_notes(notes_disk)
    /\ UNCHANGED disk
    /\ enter(next_file(file_list, 1), 1)
    /\ UNCHANGED <<de_orphan, file_list, notes_disk, endnotes_written,
                   notes_changed, run, history>>

\* process_file, lines 85-117: one pass of the loop, for a noteref link
process_link ==
    /\ pc = "file"
    /\ link_idx <= Len(noterefs(soup, 1))
    /\ link_idx' = link_idx + 1
    /\ LET at == noterefs(soup, 1)[link_idx]
           link == soup[at]
           file_name == file_list[file_idx]
           old_anchor == old_anchor_of(link)
           new_anchor == note_anchor(current_note_number)
           changed == new_anchor # old_anchor
           found == matches(old_anchor, endnotes)
           orphan == Cardinality(found) = 0 /\ de_orphan
           link1 == IF changed THEN renumber(link, current_note_number) ELSE link
           link2 == IF orphan THEN clear(link1) ELSE link1
       IN  /\ soup' = [soup EXCEPT ![at] = link2]
           /\ notes_changed' = notes_changed + (IF changed THEN 1 ELSE 0)
           /\ needs_rewrite' = (needs_rewrite \/ changed \/ orphan)
           /\ endnotes' =
                 IF Cardinality(found) = 1
                 THEN LET k == CHOOSE k \in found : TRUE
                      IN  [endnotes EXCEPT ![k] =
                              match_in_file(@, current_note_number, file_name)]
                 ELSE endnotes
           /\ current_note_number' = file_next_number(current_note_number)
           /\ history' = Append(history,
                 [el |-> link.el, file |-> file_name, old_anchor |-> old_anchor,
                  orphan |-> ~defined(old_anchor, notes_disk),
                  found |-> {endnotes[k].obj : k \in found}])
    /\ UNCHANGED <<de_orphan, file_list, disk, notes_disk, endnotes_written, pc,
                   processed, current_num, file_idx, cursor, run>>

\* process_file, lines 119-125: the file is written back if it was changed
\* and the counter returned to main's loop
close_file ==
    /\ pc = "file"
    /\ link_idx > Len(noterefs(soup, 1))
    /\ disk' = IF needs_rewrite
               THEN [disk EXCEPT ![file_list[file_idx]] = soup]
               ELSE disk
    /\ enter(next_file(file_list, file_idx + 1), current_note_number)
    /\ UNCHANGED <<de_orphan, file_list, notes_disk, endnotes_written, endnotes,
                   notes_changed, run, history>>

\* process_endnotes_file, lines 141-174: one pass of the innermost loop, for
\* a noteref link.  Everything from line 150 to line 174 is inside the block
\* of line 149.
process_endnote_link ==
    /\ pc = "endnotes"
    /\ cursor <= Len(nested_noterefs(endnotes, 1))
    /\ cursor' = cursor + 1
    /\ LET at == nested_noterefs(endnotes, 1)[cursor]
           link == endnotes[at[1]].contents[at[2]]
           old_anchor == old_anchor_of(link)
           new_anchor == note_anchor(current_note_number)
           changed == new_anchor # old_anchor
           found == matches(old_anchor, endnotes)
           orphan == Cardinality(found) = 0 /\ de_orphan
           link1 == renumber(link, current_note_number)
           link2 == IF orphan THEN clear(link1) ELSE link1
           relinked == [endnotes EXCEPT ![at[1]].contents[at[2]] = link2]
       IN  /\ endnotes' =
                 IF ~changed THEN endnotes
                 ELSE IF Cardinality(found) = 1
                 THEN LET k == CHOOSE k \in found : TRUE
                      IN  [relinked EXCEPT ![k] =
                              match_in_endnotes(@, current_note_number)]
                 ELSE relinked
           /\ notes_changed' = notes_changed + (IF changed THEN 1 ELSE 0)
           /\ current_note_number' =
                 endnotes_next_number(current_note_number, changed)
           /\ history' = Append(history,
                 [el |-> link.el, file |-> "endnotes.xhtml",
                  old_anchor |-> old_anchor,
                  orphan |-> ~defined(old_anchor, notes_disk),
                  found |-> IF changed THEN {endnotes[k].obj : k \in found}
                            ELSE {}])
    /\ UNCHANGED <<de_orphan, file_list, disk, notes_disk, endnotes_written, pc,
                   processed, current_num, file_idx, soup, link_idx,
                   needs_rewrite, run>>

\* main, lines 287-294, and recreate: the list is sorted, the matched notes
\* are emitted in that order and endnotes.xhtml is written
recreate ==
    /\ pc = "endnotes"
    /\ cursor > Len(nested_noterefs(endnotes, 1))
    /\ must_recreate(processed, notes_changed)
    /\ LET sorted == sort_by_number(endnotes)
       IN  /\ endnotes' = [i \in 1..Len(sorted) |->
                             IF emitted(sorted[i])
                             THEN [sorted[i] EXCEPT !.contents = relink(sorted[i])]
                             ELSE sorted[i]]
           /\ notes_disk' = list_items(sorted)
    /\ endnotes_written' = endnotes_written + 1
    /\ pc' = "done"
    /\ UNCHANGED <<de_orphan, file_list, disk, processed, current_num,
                   notes_changed, file_idx, soup, link_idx, needs_rewrite,
                   current_note_number, cursor, run, history>>

\* main, lines 287-288 and 295-296: nothing is rebuilt
no_recreate ==
    /\ pc = "endnotes"
    /\ cursor > Len(nested_noterefs(endnotes, 1))
    /\ ~must_recreate(processed, notes_changed)
    /\ pc' = "done"
    /\ UNCHANGED <<de_orphan, file_list, disk, notes_disk, endnotes_written,
                   endnotes, processed, current_num, notes_changed, file_idx,
                   soup, link_idx, needs_rewrite, current_note_number, cursor,
                   run, history>>

\* the program is started again on the files the first run left: a new
\* process, so every variable of the program has its initial value
run_again ==
    /\ pc = "done"
    /\ run = 1
    /\ run' = 2
    /\ pc' = "start"
    /\ endnotes_written' = 0
    /\ endnotes' = <<>>
    /\ processed' = 0
    /\ current_num' = 0
    /\ notes_changed' = 0
    /\ file_idx' = 0
    /\ soup' = <<>>
    /\ link_idx' = 0
    /\ needs_rewrite' = FALSE
    /\ current_note_number' = 0
    /\ cursor' = 0
    /\ history' = <<>>
    /\ UNCHANGED <<de_orphan, file_list, disk, notes_disk>>

Next ==
    \/ main_start
    \/ process_link
    \/ close_file
    \/ process_endnote_link
    \/ recreate
    \/ no_recreate

\* one run of the program
Spec == Init /\ [][Next]_vars

NextTwice == Next \/ run_again

\* the program, run twice in succession on the same project
SpecTwice == Init /\ [][NextTwice]_vars

\* ------------------------------------------------------------------ claims
\* both passes of the run are over and main is at line 287
AfterPasses == pc = "endnotes" /\ cursor > Len(nested_noterefs(endnotes, 1))

\* the positions in history of the links for which exactly the note obj was
\* selected, i.e. the links the note was matched with
matched_with(obj) == {p \in 1..Len(history) : history[p].found = {obj}}

\* the <a> elements of a document as stored
links_of(file) ==
    IF file = "endnotes.xhtml"
    THEN UNION {{notes_disk[i].contents[j] : j \in 1..Len(notes_disk[i].contents)} :
                   i \in 1..Len(notes_disk)}
    ELSE {disk[file][j] : j \in 1..Len(disk[file])}

\* the note object with identity obj
note_of(obj) == endnotes[CHOOSE i \in 1..Len(endnotes) : endnotes[i].obj = obj]

\* C1: after both passes, the number of every matched note is the position,
\* among all the noteref links the run met (body files in spine order, then
\* the links inside the notes), of a link it was matched with.
C1_NumberIsPosition ==
    AfterPasses =>
        \A i \in 1..Len(endnotes) :
            endnotes[i].matched =>
                endnotes[i].number \in matched_with(endnotes[i].obj)

\* C2: the second of two runs in succession changes no link: its change
\* counter stays zero.
C2_SecondRunChangesNothing == run = 2 => notes_changed = 0

\* C3: every note is selected for at most one noteref link of a run.
C3_MatchedAtMostOnce ==
    \A i \in 1..Len(endnotes) :
        Cardinality(matched_with(endnotes[i].obj)) <= 1

\* C4: in every state of a run, no two matched notes have the same number.
C4_DistinctNumbers ==
    \A i, j \in 1..Len(endnotes) :
        (i # j /\ endnotes[i].matched /\ endnotes[j].matched)
            => endnotes[i].number # endnotes[j].number

\* C4 witness: two notes are matched, by links of a body file or of a note
C4_TwoMatched ==
    \E i, j \in 1..Len(endnotes) :
        /\ i # j
        /\ endnotes[i].matched
        /\ endnotes[j].matched
        /\ Len(history) >= 2

\* C5: with orphan removal, a noteref link whose anchor is the id of no item
\* of endnotes.xhtml is, after the run, no element of its document.
C5_OrphansAbsent ==
    (pc = "done" /\ de_orphan) =>
        \A p \in 1..Len(history) :
            history[p].orphan =>
                history[p].el \notin {l.el : l \in links_of(history[p].file)}

\* C6: the counter is one more than the number of noteref links met so far.
C6_CounterCountsLinks ==
    pc \in {"file", "endnotes", "done"} =>
        current_note_number = Len(history) + 1

\* the number of the note an item of the rebuilt list was made from
number_of(item) == note_of(item.src).number

\* C7: after a rebuild, the list holds one item for every matched note and
\* none for an unmatched one, in strictly ascending order of number, each
\* with the id note-{number} of its note, and the ids are pairwise distinct.
C7_RebuiltList ==
    (pc = "done" /\ endnotes_written > 0) =>
        /\ \A i \in 1..Len(endnotes) :
              Cardinality({k \in 1..Len(notes_disk) :
                              notes_disk[k].src = endnotes[i].obj})
                 = IF endnotes[i].matched THEN 1 ELSE 0
        /\ \A k \in 1..Len(notes_disk) :
              /\ \E i \in 1..Len(endnotes) : endnotes[i].obj = notes_disk[k].src
              /\ notes_disk[k].id = <<"note-">> \o str(number_of(notes_disk[k]))
        /\ \A k, l \in 1..Len(notes_disk) :
              k < l => /\ number_of(notes_disk[k]) < number_of(notes_disk[l])
                       /\ notes_disk[k].id # notes_disk[l].id

\* C7 witness: a rebuild that emits two notes in the reverse of their
\* document order
C7_Reordered ==
    /\ pc = "done"
    /\ endnotes_written > 0
    /\ Len(notes_disk) = 2
    /\ notes_disk[1].src > notes_disk[2].src

\* C8: in no step that leaves the change counter at zero, the last step of
\* a run among them, is endnotes.xhtml written or changed.
C8_NoChangeNoWrite ==
    [][notes_changed' = 0 =>
          (notes_disk' = notes_disk /\ endnotes_written' = endnotes_written)]_vars

\* C8 witness: a run over files with noteref links ends with the counter at
\* zero and endnotes.xhtml not written
C8_NothingChanged ==
    /\ pc = "done"
    /\ processed > 0
    /\ Len(history) > 0
    /\ notes_changed = 0
    /\ endnotes_written = 0

\* C9: after both passes, every note whose id is the id of no other item and
\* is the anchor of a noteref link the run met is matched.
C9_ReferencedIsMatched ==
    AfterPasses =>
        \A i \in 1..Len(endnotes) :
            LET id == notes_disk[endnotes[i].obj].id
            IN  ( /\ Cardinality({k \in 1..Len(notes_disk) : notes_disk[k].id = id}) = 1
                  /\ \E p \in 1..Len(history) : history[p].old_anchor = id )
                => endnotes[i].matched

\* C10: after a rebuild, the target of the backlink of every emitted note
\* names a noteref link of the stored documents: the file of the href holds
\* a noteref whose id is the fragment of the href.
C10_BacklinkHasTarget ==
    (pc = "done" /\ endnotes_written > 0) =>
        \A back \in links_of("endnotes.xhtml") :
            (is_referrer(back.epub_type) /\ back.href # <<>>) =>
                \E l \in links_of(back.href[1]) :
                    /\ l.epub_type = "noteref"
                    /\ l.id = extract_anchor(back.href)

====
